---- MODULE Spec2Model ----
(***************************************************************************)
(* Model of the credit ledger of the Xeno software suite:                  *)
(*   CreditWallet  (shared/ai-integration/src/ai_integration.cpp)          *)
(*   AIIntegration (same file), which owns one CreditWallet.               *)
(*                                                                         *)
(* The specifications share the state:                                     *)
(*   WalletSpec  a CreditWallet driven directly through its ledger         *)
(*               interface, as the unit tests drive it;                    *)
(*   WalletAuthSpec  the same, with authenticate;                          *)
(*   Spec        an AIIntegration driving the wallet it owns, as the       *)
(*               applications drive it (the owned wallet is private, so    *)
(*               addCredits and getTransactionHistory are not reachable);  *)
(*   ConfigSpec  an AIIntegration being configured and probed.  The        *)
(*               provider map and the wallet share no state, so the        *)
(*               credit operations are represented by chatCompletion.      *)
(* In these four every call is one atomic step (the reference behaviour is *)
(* single-threaded); `last` records the call just made and what it         *)
(* returned.  Further specifications:                                      *)
(*   AtomicSpec      two callers on one CreditWallet, each operation one   *)
(*                   atomic step;                                          *)
(*   RaceSpec        two callers inside deductCredits with no lock, its    *)
(*                   check, decrement and push_back being separate steps;  *)
(*   InterleaveSpec  two callers on one AIIntegration, each wallet call    *)
(*                   atomic, a per-modality call not;                      *)
(*   AppSpec         one application window running its AI slots, with     *)
(*                   their progress loops, on the AIIntegration it owns;   *)
(*   InstancesSpec   the AIIntegration instances of two applications;      *)
(*   ManagerSpec     the ConfigManager singleton                           *)
(*                   (shared/utils/src/utils.cpp).                         *)
(***************************************************************************)
EXTENDS Integers, Sequences, FiniteSets, TLC

VARIABLES cached_balance, transactions, user_token, configs, last,
          threads, app, config_data, instances

\* threads: the position and locals of each concurrent caller;
\* app: the application-level action in progress;
\* config_data: the map of the ConfigManager singleton;
\* instances: the wallet of every constructed AIIntegration.
\* A specification that does not use one of them leaves it at its initial
\* value.
others == <<threads, app, config_data, instances>>

vars == <<cached_balance, transactions, user_token, configs, last, others>>

-----------------------------------------------------------------------------
(* Bounds and inputs                                                       *)

\* Longest transaction log explored.
MaxLog == 3

\* int arguments handed to deductCredits / addCredits.  Negative and zero
\* amounts are legal ints; none of them overflows an int within MaxLog calls.
Amounts == {-101, 0, 5, 96, 100}

\* operation labels handed to CreditWallet::deductCredits (any std::string).
Labels == {"", "test_operation"}

\* required_credits handed to AIIntegration::validateCredits.
Required == {-1, 0, 1, 2, 3, 5, 100, 10000}

\* limit handed to getTransactionHistory (an int, so it may be negative).
Limits == -1 .. (MaxLog + 1)

\* What a read of an int the code never initialised may yield.
IndeterminateInt == {-1, 0}

Providers == {"XenoCloud", "OpenRouter", "Ollama"}

\* endpoint and payload handed to makeAPICall.
Endpoints == {"", "/v1/chat"}
Payloads == {"null", "{\"prompt\":\"hi\"}"}

\* user_token handed to CreditWallet::authenticate (any std::string).
Tokens == {"", "valid_token"}

-----------------------------------------------------------------------------
(* CreditWallet                                                            *)

\* CreditWallet::CreditWallet(): the demo seed.
SeedBalance == 100

\* "tx_" + std::to_string(n)
TxId(n) == "tx_" \o ToString(n)

Transaction(id, operation, credits) ==
    [id |-> id, operation |-> operation, credits |-> credits,
     timestamp |-> "2024-01-01T00:00:00Z", success |-> TRUE]

\* A wallet value: the two fields of CreditWallet::Impl the ledger uses.
Wallet(bal, txs) == [cached_balance |-> bal, transactions |-> txs]

\* Result of a bool-returning call on wallet w: the return value and the
\* wallet afterwards.
Outcome(ret, w) == [ret |-> ret, wallet |-> w]

\* authenticate: the token it stores and the bool it returns.
CreditWallet_authenticate(token) ==
    [user_token |-> token, ret |-> ~(token = "")]

CreditWallet_getBalance(w) == w.cached_balance

\* Mutants of deductCredits: the delta logged with the wrong sign; the
\* sufficiency check left out; the check made strict.
Mutant_deductCredits_LogsPlus(w, amount, operation) ==
    IF w.cached_balance >= amount
    THEN Outcome(TRUE,
           Wallet(w.cached_balance - amount,
                  Append(w.transactions,
                         Transaction(TxId(Len(w.transactions) + 1),
                                     operation, amount))))
    ELSE Outcome(FALSE, w)

Mutant_deductCredits_NoCheck(w, amount, operation) ==
    Outcome(TRUE,
      Wallet(w.cached_balance - amount,
             Append(w.transactions,
                    Transaction(TxId(Len(w.transactions) + 1),
                                operation, -amount))))

Mutant_deductCredits_Strict(w, amount, operation) ==
    IF w.cached_balance > amount
    THEN Outcome(TRUE,
           Wallet(w.cached_balance - amount,
                  Append(w.transactions,
                         Transaction(TxId(Len(w.transactions) + 1),
                                     operation, -amount))))
    ELSE Outcome(FALSE, w)

\* Two more: a refused deduction logged as a failed transaction; the id taken
\* from the log length without the + 1.
Mutant_deductCredits_LogsRefusal(w, amount, operation) ==
    IF w.cached_balance >= amount
    THEN Outcome(TRUE,
           Wallet(w.cached_balance - amount,
                  Append(w.transactions,
                         Transaction(TxId(Len(w.transactions) + 1),
                                     operation, -amount))))
    ELSE Outcome(FALSE,
           Wallet(w.cached_balance,
                  Append(w.transactions,
                         [Transaction(TxId(Len(w.transactions) + 1),
                                      operation, 0)
                            EXCEPT !.success = FALSE])))

Mutant_deductCredits_IdFromSize(w, amount, operation) ==
    IF w.cached_balance >= amount
    THEN Outcome(TRUE,
           Wallet(w.cached_balance - amount,
                  Append(w.transactions,
                         Transaction(TxId(Len(w.transactions)),
                                     operation, -amount))))
    ELSE Outcome(FALSE, w)

CreditWallet_deductCredits(w, amount, operation) ==
    IF w.cached_balance >= amount
    THEN Outcome(TRUE,
           Wallet(w.cached_balance - amount,
                  Append(w.transactions,
                         Transaction(TxId(Len(w.transactions) + 1),
                                     operation, -amount))))
    ELSE Outcome(FALSE, w)

(* The three statements of deductCredits taken one at a time, for callers  *)
(* that run it without a lock: the check of line 253, the decrement of     *)
(* line 254 and the push_back of lines 256-263.                            *)
CreditWallet_deductCredits_check(w, amount) == w.cached_balance >= amount

\* Mutant of the decrement: the balance checked again, and left alone when
\* it no longer covers the amount.
Mutant_deductCredits_decrement_Rechecks(w, amount) ==
    IF w.cached_balance >= amount
    THEN Wallet(w.cached_balance - amount, w.transactions)
    ELSE w

CreditWallet_deductCredits_decrement(w, amount) ==
    Wallet(w.cached_balance - amount, w.transactions)

CreditWallet_deductCredits_append(w, amount, operation) ==
    Wallet(w.cached_balance,
           Append(w.transactions,
                  Transaction(TxId(Len(w.transactions) + 1),
                              operation, -amount)))

\* Mutant of addCredits: the balance moved the wrong way.
Mutant_addCredits_Subtracts(w, amount) ==
    Outcome(TRUE,
      Wallet(w.cached_balance - amount,
             Append(w.transactions,
                    Transaction(TxId(Len(w.transactions) + 1),
                                "credit_purchase", amount))))

CreditWallet_addCredits(w, amount) ==
    Outcome(TRUE,
      Wallet(w.cached_balance + amount,
             Append(w.transactions,
                    Transaction(TxId(Len(w.transactions) + 1),
                                "credit_purchase", amount))))

Min(a, b) == IF a < b THEN a ELSE b

\* The copy loop of getTransactionHistory: i is the 0-based index.
RECURSIVE HistoryLoop(_, _, _)
HistoryLoop(txs, i, result) ==
    IF i < Len(txs)
    THEN HistoryLoop(txs, i + 1, Append(result, txs[i + 1]))
    ELSE result

\* Mutant of getTransactionHistory: the window taken from the front of the
\* log instead of its end.
Mutant_getTransactionHistory_Oldest(w, limit) ==
    LET count == Min(limit, Len(w.transactions))
    IN  SubSeq(w.transactions, 1, count)

CreditWallet_getTransactionHistory(w, limit) ==
    LET count == Min(limit, Len(w.transactions))
    IN  HistoryLoop(w.transactions, Len(w.transactions) - count, <<>>)

-----------------------------------------------------------------------------
(* AIIntegration                                                           *)

AIIntegration_getCreditBalance(w) == CreditWallet_getBalance(w)

\* Mutant of AIIntegration::deductCredits: the wallet's answer dropped and
\* true returned.
Mutant_AIdeductCredits_AlwaysTrue(w, amount) ==
    Outcome(TRUE, CreditWallet_deductCredits(w, amount, "api_call").wallet)

AIIntegration_deductCredits(w, amount) ==
    CreditWallet_deductCredits(w, amount, "api_call")

\* Mutant of validateCredits: the comparison made strict.
Mutant_validateCredits_Strict(w, required_credits) ==
    AIIntegration_getCreditBalance(w) > required_credits

AIIntegration_validateCredits(w, required_credits) ==
    AIIntegration_getCreditBalance(w) >= required_credits

\* AIIntegration::Impl::configs, a std::map: a function whose domain is the
\* set of providers that have an entry.  Empty after construction.
NoConfigs == [p \in {} |-> <<>>]

\* AIIntegration::APIConfig; headers is a std::map, modelled like configs.
APIConfig(endpoint, api_key, headers) ==
    [endpoint |-> endpoint, api_key |-> api_key, headers |-> headers]

NoHeaders == [h \in {} |-> ""]

\* pImpl->configs[provider] = config
Upsert(cfgs, provider, config) ==
    [p \in DOMAIN cfgs \cup {provider} |->
        IF p = provider THEN config ELSE cfgs[p]]

\* Result of a configuration call: the return value and the map afterwards.
ConfigOutcome(ret, cfgs) == [ret |-> ret, configs |-> cfgs]

\* Mutant of configure: the map replaced by the one entry.
Mutant_configure_Replaces(cfgs, provider, config) ==
    ConfigOutcome(TRUE, Upsert(NoConfigs, provider, config))

\* Mutant of configure: std::map::insert semantics, which keep an existing
\* entry.
Mutant_configure_KeepsExisting(cfgs, provider, config) ==
    ConfigOutcome(TRUE,
      IF provider \in DOMAIN cfgs THEN cfgs ELSE Upsert(cfgs, provider, config))

AIIntegration_configure(cfgs, provider, config) ==
    ConfigOutcome(TRUE, Upsert(cfgs, provider, config))

\* nlohmann::json values as far as loadConfigFromFile looks at them: an
\* object is a function from its keys, a leaf is a string or null.
JsonNull == [type |-> "null", value |-> ""]
JsonString(str) == [type |-> "string", value |-> str]

\* json::contains(key) on an object.
JsonContains(obj, key) == key \in DOMAIN obj

\* json::operator[](key) on a non-const object: a missing key yields null.
JsonAt(obj, key) == IF key \in DOMAIN obj THEN obj[key] ELSE JsonNull

\* Conversion of a json value to std::string succeeds on a string and throws
\* type_error on anything else.
JsonIsString(v) == v.type = "string"

\* One section of loadConfigFromFile: whether it threw, and the map after.
SectionOutcome(threw, cfgs) == [threw |-> threw, configs |-> cfgs]

\* "Bearer " + api_key
Bearer(api_key) == [Authorization |-> "Bearer " \o api_key]

LoadXenoAI(cfgs, config) ==
    IF JsonContains(config, "xeno_ai")
    THEN LET endpoint == JsonAt(config["xeno_ai"], "endpoint")
             api_key == JsonAt(config["xeno_ai"], "api_key")
         IN  IF ~JsonIsString(endpoint) \/ ~JsonIsString(api_key)
             THEN SectionOutcome(TRUE, cfgs)
             ELSE SectionOutcome(FALSE,
                    AIIntegration_configure(cfgs, "XenoCloud",
                      APIConfig(endpoint.value, api_key.value,
                                Bearer(api_key.value))).configs)
    ELSE SectionOutcome(FALSE, cfgs)

LoadOpenRouter(cfgs, config) ==
    IF JsonContains(config, "open_router")
    THEN LET endpoint == JsonAt(config["open_router"], "endpoint")
             api_key == JsonAt(config["open_router"], "api_key")
         IN  IF ~JsonIsString(endpoint) \/ ~JsonIsString(api_key)
             THEN SectionOutcome(TRUE, cfgs)
             ELSE SectionOutcome(FALSE,
                    AIIntegration_configure(cfgs, "OpenRouter",
                      APIConfig(endpoint.value, api_key.value,
                                Bearer(api_key.value))).configs)
    ELSE SectionOutcome(FALSE, cfgs)

LoadOllama(cfgs, config) ==
    IF JsonContains(config, "ollama")
    THEN LET endpoint == JsonAt(config["ollama"], "endpoint")
         IN  IF ~JsonIsString(endpoint)
             THEN SectionOutcome(TRUE, cfgs)
             ELSE SectionOutcome(FALSE,
                    AIIntegration_configure(cfgs, "Ollama",
                      APIConfig(endpoint.value, "", NoHeaders)).configs)
    ELSE SectionOutcome(FALSE, cfgs)

\* The three sections in source order; an exception leaves the try block at
\* once, keeping what earlier sections configured.
LoadSections(cfgs, config) ==
    LET x == LoadXenoAI(cfgs, config)
    IN  IF x.threw THEN ConfigOutcome(FALSE, x.configs)
        ELSE LET r == LoadOpenRouter(x.configs, config)
             IN  IF r.threw THEN ConfigOutcome(FALSE, r.configs)
                 ELSE LET o == LoadOllama(r.configs, config)
                      IN  IF o.threw THEN ConfigOutcome(FALSE, o.configs)
                          ELSE ConfigOutcome(TRUE, o.configs)

\* Mutant of loadConfigFromFile: a file lacking one of the three sections
\* rejected.
Mutant_loadConfigFromFile_NeedsAllSections(cfgs, file) ==
    IF ~file.opens THEN ConfigOutcome(FALSE, cfgs)
    ELSE IF ~file.parses THEN ConfigOutcome(FALSE, cfgs)
    ELSE IF DOMAIN file.json # {"xeno_ai", "open_router", "ollama"}
         THEN ConfigOutcome(FALSE, cfgs)
    ELSE LoadSections(cfgs, file.json)

\* A file is what the code can observe of it: whether it opens, whether
\* `file >> config` parses it, and the document parsed.
AIIntegration_loadConfigFromFile(cfgs, file) ==
    IF ~file.opens THEN ConfigOutcome(FALSE, cfgs)
    ELSE IF ~file.parses THEN ConfigOutcome(FALSE, cfgs)
    ELSE LoadSections(cfgs, file.json)

AIIntegration_isProviderAvailable(cfgs, provider) ==
    provider \in DOMAIN cfgs

AIIntegration_getProviderStatus(cfgs, provider) ==
    IF ~AIIntegration_isProviderAvailable(cfgs, provider)
    THEN "Not configured"
    ELSE "Available"

\* `AIResponse response;` : the strings and the json are default-constructed,
\* the bool and the int are not initialised.  success is assigned on every
\* path before the return, so only credits_used can keep its indeterminate
\* value (junk).
AIResponse(junk) ==
    [success |-> FALSE, content |-> "", credits_used |-> junk,
     error_message |-> "", metadata |-> "null"]

\* Result of a per-modality operation: the response returned, the wallet
\* afterwards, and what became of the inner deductCredits call, whose
\* return value the code discards ("none" when no call was made).
ModalityOutcome(response, w, deducted) ==
    [response |-> response, wallet |-> w, deducted |-> deducted]

Deducted(d) == IF d.ret THEN "ok" ELSE "refused"

\* Mutant of makeAPICall: the reported cost also deducted.
Mutant_makeAPICall_Charges(w, provider, endpoint, payload) ==
    LET r == [AIResponse(0) EXCEPT
                !.success = TRUE,
                !.content = "API response (placeholder)",
                !.credits_used = IF provider = "XenoCloud" THEN 1 ELSE 0]
        d == AIIntegration_deductCredits(w, r.credits_used)
    IN  ModalityOutcome(r, d.wallet, Deducted(d))

\* makeAPICall assigns success, content and credits_used on its only path,
\* so nothing of the uninitialised response is returned.
AIIntegration_makeAPICall(w, provider, endpoint, payload) ==
    ModalityOutcome(
      [AIResponse(0) EXCEPT
         !.success = TRUE,
         !.content = "API response (placeholder)",
         !.credits_used = IF provider = "XenoCloud" THEN 1 ELSE 0],
      w, "none")

\* Mutant of generateImage: the charge forgotten after the response is built.
Mutant_generateImage_NoCharge(w, provider, junk) ==
    LET response == AIResponse(junk)
        required_credits == 3
    IN  IF provider = "XenoCloud"
           /\ ~AIIntegration_validateCredits(w, required_credits)
        THEN ModalityOutcome(
               [response EXCEPT !.success = FALSE,
                                !.error_message = "Insufficient credits"],
               w, "none")
        ELSE ModalityOutcome(
               [response EXCEPT
                  !.success = TRUE,
                  !.content = "Generated image data (placeholder)",
                  !.credits_used = IF provider = "XenoCloud" THEN 3 ELSE 0],
               w, "none")

AIIntegration_generateImage(w, provider, junk) ==
    LET response == AIResponse(junk)
        required_credits == 3   \* Base cost for image generation
    IN  IF provider = "XenoCloud"
           /\ ~AIIntegration_validateCredits(w, required_credits)
        THEN ModalityOutcome(
               [response EXCEPT !.success = FALSE,
                                !.error_message = "Insufficient credits"],
               w, "none")
        ELSE LET r == [response EXCEPT
                         !.success = TRUE,
                         !.content = "Generated image data (placeholder)",
                         !.credits_used =
                             IF provider = "XenoCloud" THEN 3 ELSE 0]
             IN  IF provider = "XenoCloud"
                 THEN LET d == AIIntegration_deductCredits(w, r.credits_used)
                      IN  ModalityOutcome(r, d.wallet, Deducted(d))
                 ELSE ModalityOutcome(r, w, "none")

(* generateImage in the two parts a second caller can come between: up to *)
(* and including the filling of the response (lines 94-110), and the       *)
(* deduction that follows (lines 111-115).                                 *)
AIIntegration_generateImage_validate(w, provider, junk) ==
    LET response == AIResponse(junk)
        required_credits == 3
    IN  IF provider = "XenoCloud"
           /\ ~AIIntegration_validateCredits(w, required_credits)
        THEN [returned |-> TRUE,
              response |-> [response EXCEPT
                              !.success = FALSE,
                              !.error_message = "Insufficient credits"]]
        ELSE [returned |-> FALSE,
              response |-> [response EXCEPT
                              !.success = TRUE,
                              !.content = "Generated image data (placeholder)",
                              !.credits_used =
                                  IF provider = "XenoCloud" THEN 3 ELSE 0]]

AIIntegration_generateImage_charge(w, provider, response) ==
    IF provider = "XenoCloud"
    THEN LET d == AIIntegration_deductCredits(w, response.credits_used)
         IN  ModalityOutcome(response, d.wallet, Deducted(d))
    ELSE ModalityOutcome(response, w, "none")

\* Mutant of processVideo: the image cost validated in place of the video
\* cost.
Mutant_processVideo_ValidatesImageCost(w, provider, junk) ==
    LET response == AIResponse(junk)
        required_credits == 3
    IN  IF provider = "XenoCloud"
           /\ ~AIIntegration_validateCredits(w, required_credits)
        THEN ModalityOutcome(
               [response EXCEPT !.success = FALSE,
                                !.error_message = "Insufficient credits"],
               w, "none")
        ELSE LET r == [response EXCEPT
                         !.success = TRUE,
                         !.content = "Processed video data (placeholder)",
                         !.credits_used =
                             IF provider = "XenoCloud" THEN 5 ELSE 0]
             IN  IF provider = "XenoCloud"
                 THEN LET d == AIIntegration_deductCredits(w, r.credits_used)
                      IN  ModalityOutcome(r, d.wallet, Deducted(d))
                 ELSE ModalityOutcome(r, w, "none")

AIIntegration_processVideo(w, provider, junk) ==
    LET response == AIResponse(junk)
        required_credits == 5   \* Base cost for video processing
    IN  IF provider = "XenoCloud"
           /\ ~AIIntegration_validateCredits(w, required_credits)
        THEN ModalityOutcome(
               [response EXCEPT !.success = FALSE,
                                !.error_message = "Insufficient credits"],
               w, "none")
        ELSE LET r == [response EXCEPT
                         !.success = TRUE,
                         !.content = "Processed video data (placeholder)",
                         !.credits_used =
                             IF provider = "XenoCloud" THEN 5 ELSE 0]
             IN  IF provider = "XenoCloud"
                 THEN LET d == AIIntegration_deductCredits(w, r.credits_used)
                      IN  ModalityOutcome(r, d.wallet, Deducted(d))
                 ELSE ModalityOutcome(r, w, "none")

\* Mutant of processAudio: credits validated and charged whatever the
\* provider.
Mutant_processAudio_MetersEveryProvider(w, provider, junk) ==
    LET response == AIResponse(junk)
        required_credits == 2
    IN  IF ~AIIntegration_validateCredits(w, required_credits)
        THEN ModalityOutcome(
               [response EXCEPT !.success = FALSE,
                                !.error_message = "Insufficient credits"],
               w, "none")
        ELSE LET r == [response EXCEPT
                         !.success = TRUE,
                         !.content = "Processed audio data (placeholder)",
                         !.credits_used = 2]
                 d == AIIntegration_deductCredits(w, r.credits_used)
             IN  ModalityOutcome(r, d.wallet, Deducted(d))

AIIntegration_processAudio(w, provider, junk) ==
    LET response == AIResponse(junk)
        required_credits == 2   \* Base cost for audio processing
    IN  IF provider = "XenoCloud"
           /\ ~AIIntegration_validateCredits(w, required_credits)
        THEN ModalityOutcome(
               [response EXCEPT !.success = FALSE,
                                !.error_message = "Insufficient credits"],
               w, "none")
        ELSE LET r == [response EXCEPT
                         !.success = TRUE,
                         !.content = "Processed audio data (placeholder)",
                         !.credits_used =
                             IF provider = "XenoCloud" THEN 2 ELSE 0]
             IN  IF provider = "XenoCloud"
                 THEN LET d == AIIntegration_deductCredits(w, r.credits_used)
                      IN  ModalityOutcome(r, d.wallet, Deducted(d))
                 ELSE ModalityOutcome(r, w, "none")

AIIntegration_completeCode(w, provider, junk) ==
    LET response == AIResponse(junk)
        required_credits == 1   \* Base cost for code completion
    IN  IF provider = "XenoCloud"
           /\ ~AIIntegration_validateCredits(w, required_credits)
        THEN ModalityOutcome(
               [response EXCEPT !.success = FALSE,
                                !.error_message = "Insufficient credits"],
               w, "none")
        ELSE LET r == [response EXCEPT
                         !.success = TRUE,
                         !.content = "Code completion suggestion (placeholder)",
                         !.credits_used =
                             IF provider = "XenoCloud" THEN 1 ELSE 0]
             IN  IF provider = "XenoCloud"
                 THEN LET d == AIIntegration_deductCredits(w, r.credits_used)
                      IN  ModalityOutcome(r, d.wallet, Deducted(d))
                 ELSE ModalityOutcome(r, w, "none")

AIIntegration_chatCompletion(w, provider, junk) ==
    LET response == AIResponse(junk)
        required_credits == 1   \* cost of a chat completion
    IN  IF provider = "XenoCloud"
           /\ ~AIIntegration_validateCredits(w, required_credits)
        THEN ModalityOutcome(
               [response EXCEPT !.success = FALSE,
                                !.error_message = "Insufficient credits"],
               w, "none")
        ELSE LET r == [response EXCEPT
                         !.success = TRUE,
                         !.content = "Chat response (placeholder)",
                         !.credits_used =
                             IF provider = "XenoCloud" THEN 1 ELSE 0]
             IN  IF provider = "XenoCloud"
                 THEN LET d == AIIntegration_deductCredits(w, r.credits_used)
                      IN  ModalityOutcome(r, d.wallet, Deducted(d))
                 ELSE ModalityOutcome(r, w, "none")

-----------------------------------------------------------------------------
(* ConfigManager (shared/utils/src/utils.cpp)                              *)
(*                                                                         *)
(* config_data is a std::map<std::string, std::string>.  A std::string is  *)
(* a sequence of one-character strings, so that std::to_string and         *)
(* std::stoi are computed digit by digit.                                  *)

INT_MAX == 2147483647
INT_MIN == -INT_MAX - 1

Digit == <<"0", "1", "2", "3", "4", "5", "6", "7", "8", "9">>

IsDigit(c) == \E d \in 0 .. 9 : Digit[d + 1] = c

DigitValue(c) == CHOOSE d \in 0 .. 9 : Digit[d + 1] = c

\* The decimal digits of -m, for m <= 0 (worked on the negative side, where
\* every int has a counterpart).
RECURSIVE to_string_digits(_)
to_string_digits(m) ==
    LET d == (10 - (m % 10)) % 10
        q == (m + d) \div 10
    IN  IF q = 0
        THEN <<Digit[d + 1]>>
        ELSE Append(to_string_digits(q), Digit[d + 1])

\* std::to_string(int).
to_string(n) ==
    IF n < 0 THEN <<"-">> \o to_string_digits(n) ELSE to_string_digits(-n)

\* What std::stoi did: threw (invalid_argument or out_of_range), or
\* returned value.
Stoi(throws, value) == [throws |-> throws, value |-> value]

RECURSIVE SkipSpace(_)
SkipSpace(s) ==
    IF s # <<>> /\ s[1] \in {" ", "\t", "\n"} THEN SkipSpace(Tail(s)) ELSE s

\* The digits at the head of s accumulated onto acc, kept at or below zero;
\* floor is the least value acc may take.  "range" once it would pass it.
RECURSIVE stoi_digits(_, _, _)
stoi_digits(s, acc, floor) ==
    IF s = <<>> \/ ~IsDigit(s[1])
    THEN [range |-> FALSE, acc |-> acc]
    ELSE LET d == DigitValue(s[1])
         IN  IF acc >= (floor + d + 9) \div 10
             THEN stoi_digits(Tail(s), acc * 10 - d, floor)
             ELSE [range |-> TRUE, acc |-> 0]

\* std::stoi(str), base 10: leading white space, an optional sign, then
\* the longest run of digits; no digit is invalid_argument, a value outside
\* int is out_of_range.
stoi(str) ==
    LET s == SkipSpace(str)
        signed == s # <<>> /\ s[1] \in {"+", "-"}
        negative == s # <<>> /\ s[1] = "-"
        body == IF signed THEN Tail(s) ELSE s
    IN  IF body = <<>> \/ ~IsDigit(body[1])
        THEN Stoi(TRUE, 0)
        ELSE LET r == stoi_digits(body, 0,
                                  IF negative THEN INT_MIN ELSE -INT_MAX)
             IN  IF r.range THEN Stoi(TRUE, 0)
                 ELSE Stoi(FALSE, IF negative THEN r.acc ELSE -r.acc)

\* config_data[key] = value.
MapSet(data, key, value) ==
    [k \in DOMAIN data \cup {key} |-> IF k = key THEN value ELSE data[k]]

ConfigManager_getString(data, key, default_value) ==
    IF key \in DOMAIN data THEN data[key] ELSE default_value

ConfigManager_getInt(data, key, default_value) ==
    IF key \in DOMAIN data
    THEN LET r == stoi(data[key])
         IN  IF r.throws THEN default_value ELSE r.value
    ELSE default_value

\* Mutant of getBool: only "1" taken for true.
Mutant_getBool_OnlyOne(data, key, default_value) ==
    IF key \in DOMAIN data
    THEN data[key] = <<"1">>
    ELSE default_value

ConfigManager_getBool(data, key, default_value) ==
    IF key \in DOMAIN data
    THEN data[key] = <<"t", "r", "u", "e">> \/ data[key] = <<"1">>
    ELSE default_value

ConfigManager_setString(data, key, value) == MapSet(data, key, value)

ConfigManager_setInt(data, key, value) == MapSet(data, key, to_string(value))

ConfigManager_setBool(data, key, value) ==
    MapSet(data, key,
           IF value THEN <<"t", "r", "u", "e">>
                    ELSE <<"f", "a", "l", "s", "e">>)

-----------------------------------------------------------------------------
(* State machine                                                           *)

W == Wallet(cached_balance, transactions)

NoResponse == AIResponse(0)

\* The record of one call: its name and arguments, and what it returned
\* (ret for bool, value for int, response for AIResponse, history for the
\* vector; the fields a call does not use keep their defaults).
Call(op) ==
    [op |-> op, amount |-> 0, operation |-> "", provider |-> "",
     ret |-> FALSE, value |-> 0, response |-> NoResponse,
     deducted |-> "none", history |-> <<>>, arg |-> <<>>]

\* The callers that may be inside one wallet or one AIIntegration at once.
Callers == {"t1", "t2"}

\* A caller outside any call.  pc is its position; op, amount, operation and
\* provider are the arguments of the call it is in; ret, response and
\* deducted are what the call has produced so far.
Idle ==
    [pc |-> "idle", op |-> "", amount |-> 0, operation |-> "",
     provider |-> "", ret |-> FALSE, response |-> NoResponse,
     deducted |-> "none"]

\* No application-level action in progress.  window is the application the
\* AIIntegration belongs to, action the slot being run, i the loop variable
\* of its progress loop, before the wallet as it was when the slot started.
NoAction ==
    [window |-> "", action |-> "", pc |-> "idle", i |-> 0,
     before |-> Wallet(SeedBalance, <<>>)]

\* ConfigManager::config_data of a ConfigManager nothing was set on.
NoData == [k \in {} |-> <<>>]

\* No AIIntegration constructed yet.
NoInstances == [n \in {} |-> Wallet(SeedBalance, <<>>)]

Init ==
    /\ cached_balance = SeedBalance
    /\ transactions = <<>>
    /\ user_token = ""
    /\ configs = NoConfigs
    /\ last = Call("constructor")
    /\ threads = [t \in Callers |-> Idle]
    /\ app = NoAction
    /\ config_data = NoData
    /\ instances = NoInstances

\* Install wallet value w, within the explored log length.
SetWallet(w) ==
    /\ Len(w.transactions) <= MaxLog
    /\ cached_balance' = w.cached_balance
    /\ transactions' = w.transactions
    /\ UNCHANGED <<user_token, configs, others>>

(* --- a CreditWallet used directly --- *)

WalletAuthenticate ==
    \E token \in Tokens :
        LET o == CreditWallet_authenticate(token)
        IN  /\ user_token' = o.user_token
            /\ last' = [Call("authenticate") EXCEPT
                          !.operation = token, !.ret = o.ret]
            /\ UNCHANGED <<cached_balance, transactions, configs, others>>

WalletGetBalance ==
    /\ last' = [Call("getBalance") EXCEPT !.value = CreditWallet_getBalance(W)]
    /\ UNCHANGED <<cached_balance, transactions, user_token, configs, others>>

WalletDeductCredits ==
    \E amount \in Amounts, operation \in Labels :
        LET o == CreditWallet_deductCredits(W, amount, operation)
        IN  /\ SetWallet(o.wallet)
            /\ last' = [Call("deductCredits") EXCEPT
                          !.amount = amount, !.operation = operation,
                          !.ret = o.ret]

WalletAddCredits ==
    \E amount \in Amounts :
        LET o == CreditWallet_addCredits(W, amount)
        IN  /\ SetWallet(o.wallet)
            /\ last' = [Call("addCredits") EXCEPT
                          !.amount = amount, !.ret = o.ret]

WalletGetTransactionHistory ==
    \E limit \in Limits :
        /\ last' = [Call("getTransactionHistory") EXCEPT
                      !.amount = limit,
                      !.history = CreditWallet_getTransactionHistory(W, limit)]
        /\ UNCHANGED <<cached_balance, transactions, user_token, configs, others>>

WalletNext ==
    \/ WalletGetBalance
    \/ WalletDeductCredits
    \/ WalletAddCredits
    \/ WalletGetTransactionHistory

WalletSpec == Init /\ [][WalletNext]_vars

\* The same wallet with authenticate called as well.  authenticate writes
\* user_token only, which no ledger operation reads.
WalletAuthNext ==
    \/ WalletAuthenticate
    \/ WalletNext

WalletAuthSpec == Init /\ [][WalletAuthNext]_vars

(* --- an AIIntegration and the wallet it owns --- *)

GetCreditBalance ==
    /\ last' = [Call("getCreditBalance") EXCEPT
                  !.value = AIIntegration_getCreditBalance(W)]
    /\ UNCHANGED <<cached_balance, transactions, user_token, configs, others>>

DeductCredits ==
    \E amount \in Amounts :
        LET o == AIIntegration_deductCredits(W, amount)
        IN  /\ SetWallet(o.wallet)
            /\ last' = [Call("deductCredits") EXCEPT
                          !.amount = amount, !.operation = "api_call",
                          !.ret = o.ret]

ValidateCredits ==
    \E required_credits \in Required :
        /\ last' = [Call("validateCredits") EXCEPT
                      !.amount = required_credits,
                      !.ret = AIIntegration_validateCredits(W, required_credits)]
        /\ UNCHANGED <<cached_balance, transactions, user_token, configs, others>>

\* One per-modality call, whole: validation, response, deduction.
Modality(op, o, provider) ==
    /\ SetWallet(o.wallet)
    /\ last' = [Call(op) EXCEPT
                  !.provider = provider, !.response = o.response,
                  !.deducted = o.deducted]

GenerateImage ==
    \E provider \in Providers, junk \in IndeterminateInt :
        Modality("generateImage",
                 AIIntegration_generateImage(W, provider, junk), provider)

ProcessVideo ==
    \E provider \in Providers, junk \in IndeterminateInt :
        Modality("processVideo",
                 AIIntegration_processVideo(W, provider, junk), provider)

ProcessAudio ==
    \E provider \in Providers, junk \in IndeterminateInt :
        Modality("processAudio",
                 AIIntegration_processAudio(W, provider, junk), provider)

CompleteCode ==
    \E provider \in Providers, junk \in IndeterminateInt :
        Modality("completeCode",
                 AIIntegration_completeCode(W, provider, junk), provider)

ChatCompletion ==
    \E provider \in Providers, junk \in IndeterminateInt :
        Modality("chatCompletion",
                 AIIntegration_chatCompletion(W, provider, junk), provider)

Next ==
    \/ GetCreditBalance
    \/ DeductCredits
    \/ ValidateCredits
    \/ GenerateImage
    \/ ProcessVideo
    \/ ProcessAudio
    \/ CompleteCode
    \/ ChatCompletion

Spec == Init /\ [][Next]_vars

(* --- an AIIntegration being configured and probed --- *)

\* config handed to configure: nothing in it is validated, so an empty one
\* is as good as any.
ConfigArgs ==
    {APIConfig("https://api.xenolabs.ai", "key_a", NoHeaders),
     APIConfig("", "", NoHeaders)}

\* Config files.  A section is given by the set of fields it holds, Absent
\* standing for a section that is not in the document.
Absent == {"<absent>"}

SectionNames == {"xeno_ai", "open_router", "ollama"}

SectionShapes ==
    [xeno_ai     : {Absent, {"endpoint", "api_key"}, {"api_key"}, {"endpoint"}},
     open_router : {Absent, {"endpoint", "api_key"}, {"endpoint"}},
     ollama      : {Absent, {"endpoint"}, {}}]

JsonOf(shape) ==
    [n \in {m \in SectionNames : shape[m] # Absent} |->
        [f \in shape[n] |-> JsonString(n \o "." \o f)]]

File(opens, parses, json) ==
    [opens |-> opens, parses |-> parses, json |-> json]

NoJson == [n \in {} |-> <<>>]

Files ==
    {File(FALSE, FALSE, NoJson), File(TRUE, FALSE, NoJson)}
      \cup {File(TRUE, TRUE, JsonOf(shape)) : shape \in SectionShapes}

Configure ==
    \E provider \in Providers, config \in ConfigArgs :
        LET o == AIIntegration_configure(configs, provider, config)
        IN  /\ configs' = o.configs
            /\ last' = [Call("configure") EXCEPT
                          !.provider = provider, !.arg = config,
                          !.ret = o.ret]
            /\ UNCHANGED <<cached_balance, transactions, user_token, others>>

LoadConfigFromFile ==
    \E file \in Files :
        LET o == AIIntegration_loadConfigFromFile(configs, file)
        IN  /\ configs' = o.configs
            /\ last' = [Call("loadConfigFromFile") EXCEPT
                          !.arg = file, !.ret = o.ret]
            /\ UNCHANGED <<cached_balance, transactions, user_token, others>>

IsProviderAvailable ==
    \E provider \in Providers :
        /\ last' = [Call("isProviderAvailable") EXCEPT
                      !.provider = provider,
                      !.ret = AIIntegration_isProviderAvailable(configs, provider)]
        /\ UNCHANGED <<cached_balance, transactions, user_token, configs, others>>

\* The status string is returned in the `operation` field.
GetProviderStatus ==
    \E provider \in Providers :
        /\ last' = [Call("getProviderStatus") EXCEPT
                      !.provider = provider,
                      !.operation =
                          AIIntegration_getProviderStatus(configs, provider)]
        /\ UNCHANGED <<cached_balance, transactions, user_token, configs, others>>

MakeAPICall ==
    \E provider \in Providers, endpoint \in Endpoints, payload \in Payloads :
        LET o == AIIntegration_makeAPICall(W, provider, endpoint, payload)
        IN  /\ SetWallet(o.wallet)
            /\ last' = [Call("makeAPICall") EXCEPT
                          !.provider = provider,
                          !.arg = <<endpoint, payload>>,
                          !.response = o.response,
                          !.deducted = o.deducted]

\* Configuration calls, with chat completions spending credits in between.
ConfigNext ==
    \/ Configure
    \/ LoadConfigFromFile
    \/ IsProviderAvailable
    \/ GetProviderStatus
    \/ MakeAPICall
    \/ ChatCompletion

ConfigSpec == Init /\ [][ConfigNext]_vars

(* --- several callers on one CreditWallet, every operation atomic --- *)

\* int arguments of the concurrent callers.
AtomicAmounts == {5, 96}

\* Caller t enters deductCredits or addCredits and waits for its turn.
AtomicInvoke(t) ==
    /\ threads[t].pc = "idle"
    /\ \E op \in {"deductCredits", "addCredits"}, amount \in AtomicAmounts :
          /\ threads' = [threads EXCEPT ![t] =
                           [Idle EXCEPT !.pc = "waiting", !.op = op,
                                        !.amount = amount,
                                        !.operation = "test_operation"]]
          /\ last' = [Call("invoke") EXCEPT !.amount = amount]
    /\ UNCHANGED <<cached_balance, transactions, user_token, configs,
                   app, config_data, instances>>

\* Caller t runs the whole body of its operation in one step.
AtomicApply(t) ==
    /\ threads[t].pc = "waiting"
    /\ LET c == threads[t]
           o == IF c.op = "deductCredits"
                THEN CreditWallet_deductCredits(W, c.amount, c.operation)
                ELSE CreditWallet_addCredits(W, c.amount)
       IN  /\ Len(o.wallet.transactions) <= MaxLog
           /\ cached_balance' = o.wallet.cached_balance
           /\ transactions' = o.wallet.transactions
           /\ threads' = [threads EXCEPT ![t] =
                            [c EXCEPT !.pc = "returned", !.ret = o.ret]]
           /\ last' = [Call(c.op) EXCEPT
                         !.amount = c.amount, !.operation = c.operation,
                         !.ret = o.ret]
    /\ UNCHANGED <<user_token, configs, app, config_data, instances>>

\* Caller t takes the return value and leaves the call.
AtomicReturn(t) ==
    /\ threads[t].pc = "returned"
    /\ threads' = [threads EXCEPT ![t] = Idle]
    /\ last' = Call("return")
    /\ UNCHANGED <<cached_balance, transactions, user_token, configs,
                   app, config_data, instances>>

AtomicNext ==
    \E t \in Callers : AtomicInvoke(t) \/ AtomicApply(t) \/ AtomicReturn(t)

AtomicSpec == Init /\ [][AtomicNext]_vars

(* --- two callers in deductCredits on one CreditWallet, no lock --- *)

\* Caller t enters deductCredits; each caller makes one call.
RaceCall(t) ==
    /\ threads[t].pc = "idle"
    /\ \E amount \in Amounts, operation \in Labels :
          threads' = [threads EXCEPT ![t] =
                        [Idle EXCEPT !.pc = "check", !.op = "deductCredits",
                                     !.amount = amount,
                                     !.operation = operation]]
    /\ last' = Call("call")
    /\ UNCHANGED <<cached_balance, transactions, user_token, configs,
                   app, config_data, instances>>

\* Line 253: the comparison; line 267 when it fails.
RaceCheck(t) ==
    /\ threads[t].pc = "check"
    /\ threads' = [threads EXCEPT ![t] =
                     IF CreditWallet_deductCredits_check(W, @.amount)
                     THEN [@ EXCEPT !.pc = "decrement"]
                     ELSE [@ EXCEPT !.pc = "returned", !.ret = FALSE]]
    /\ last' = Call("check")
    /\ UNCHANGED <<cached_balance, transactions, user_token, configs,
                   app, config_data, instances>>

\* Line 254: the decrement.
RaceDecrement(t) ==
    /\ threads[t].pc = "decrement"
    /\ LET w == CreditWallet_deductCredits_decrement(W, threads[t].amount)
       IN  /\ cached_balance' = w.cached_balance
           /\ transactions' = w.transactions
    /\ threads' = [threads EXCEPT ![t].pc = "append"]
    /\ last' = Call("decrement")
    /\ UNCHANGED <<user_token, configs, app, config_data, instances>>

\* Lines 256-265: the push_back and the return of true.
RaceAppend(t) ==
    /\ threads[t].pc = "append"
    /\ LET w == CreditWallet_deductCredits_append(W, threads[t].amount,
                                                  threads[t].operation)
       IN  /\ cached_balance' = w.cached_balance
           /\ transactions' = w.transactions
    /\ threads' = [threads EXCEPT ![t].pc = "returned", ![t].ret = TRUE]
    /\ last' = Call("append")
    /\ UNCHANGED <<user_token, configs, app, config_data, instances>>

RaceNext ==
    \E t \in Callers :
        RaceCall(t) \/ RaceCheck(t) \/ RaceDecrement(t) \/ RaceAppend(t)

RaceSpec == Init /\ [][RaceNext]_vars

(* --- the ConfigManager singleton --- *)

Keys == {"test_key", "test_int"}

\* std::string values handed to setString and, as defaults, to getString.
StringValues ==
    {<<>>, <<"t", "e", "s", "t", "_", "v", "a", "l", "u", "e">>, <<"1">>,
     <<" ", "+", "7", "x">>,
     <<"9", "9", "9", "9", "9", "9", "9", "9", "9", "9", "9">>}

\* int values handed to setInt and, as defaults, to getInt.
IntValues == {INT_MIN, -42, 0, 42, INT_MAX}

SetData(data) ==
    /\ config_data' = data
    /\ UNCHANGED <<cached_balance, transactions, user_token, configs,
                   threads, app, instances>>

SetString ==
    \E key \in Keys, value \in StringValues :
        /\ SetData(ConfigManager_setString(config_data, key, value))
        /\ last' = [Call("setString") EXCEPT
                      !.operation = key, !.arg = value]

SetInt ==
    \E key \in Keys, value \in IntValues :
        /\ SetData(ConfigManager_setInt(config_data, key, value))
        /\ last' = [Call("setInt") EXCEPT
                      !.operation = key, !.amount = value]

SetBool ==
    \E key \in Keys, value \in BOOLEAN :
        /\ SetData(ConfigManager_setBool(config_data, key, value))
        /\ last' = [Call("setBool") EXCEPT
                      !.operation = key, !.ret = value]

\* The getters record the default handed in (arg[1], amount, provider) and
\* the value returned (arg[2], value, ret).
GetString ==
    \E key \in Keys, default_value \in {<<>>, <<"1">>} :
        /\ SetData(config_data)
        /\ last' = [Call("getString") EXCEPT
                      !.operation = key,
                      !.arg = <<default_value,
                                ConfigManager_getString(config_data, key,
                                                        default_value)>>]

GetInt ==
    \E key \in Keys, default_value \in {0, 42} :
        /\ SetData(config_data)
        /\ last' = [Call("getInt") EXCEPT
                      !.operation = key, !.amount = default_value,
                      !.value = ConfigManager_getInt(config_data, key,
                                                     default_value)]

GetBool ==
    \E key \in Keys, default_value \in BOOLEAN :
        /\ SetData(config_data)
        /\ last' = [Call("getBool") EXCEPT
                      !.operation = key,
                      !.provider = IF default_value THEN "true" ELSE "false",
                      !.ret = ConfigManager_getBool(config_data, key,
                                                    default_value)]

ManagerNext ==
    SetString \/ SetInt \/ SetBool \/ GetString \/ GetInt \/ GetBool

ManagerSpec == Init /\ [][ManagerNext]_vars

(* --- two callers on one AIIntegration, every wallet call atomic --- *)

\* Caller t calls AIIntegration::deductCredits, as the applications do.
InterleaveDeduct(t) ==
    /\ threads[t].pc = "idle"
    /\ \E amount \in AtomicAmounts :
          LET o == AIIntegration_deductCredits(W, amount)
          IN  /\ Len(o.wallet.transactions) <= MaxLog
              /\ cached_balance' = o.wallet.cached_balance
              /\ transactions' = o.wallet.transactions
              /\ last' = [Call("deductCredits") EXCEPT
                            !.amount = amount, !.ret = o.ret]
    /\ UNCHANGED <<user_token, configs, others>>

\* Caller t enters generateImage and runs it up to the deduction.
InterleaveValidate(t) ==
    /\ threads[t].pc = "idle"
    /\ \E provider \in Providers, junk \in IndeterminateInt :
          LET v == AIIntegration_generateImage_validate(W, provider, junk)
          IN  threads' = [threads EXCEPT ![t] =
                            [Idle EXCEPT
                               !.pc = IF v.returned THEN "returned"
                                                    ELSE "deduct",
                               !.op = "generateImage",
                               !.provider = provider,
                               !.response = v.response]]
    /\ last' = Call("validate")
    /\ UNCHANGED <<cached_balance, transactions, user_token, configs,
                   app, config_data, instances>>

\* Caller t runs the rest of generateImage.
InterleaveCharge(t) ==
    /\ threads[t].pc = "deduct"
    /\ LET c == threads[t]
           o == AIIntegration_generateImage_charge(W, c.provider, c.response)
       IN  /\ Len(o.wallet.transactions) <= MaxLog
           /\ cached_balance' = o.wallet.cached_balance
           /\ transactions' = o.wallet.transactions
           /\ threads' = [threads EXCEPT ![t] =
                            [c EXCEPT !.pc = "returned",
                                      !.deducted = o.deducted]]
           /\ last' = [Call("generateImage") EXCEPT
                         !.provider = c.provider, !.response = o.response,
                         !.deducted = o.deducted]
    /\ UNCHANGED <<user_token, configs, app, config_data, instances>>

\* Caller t takes the response and leaves the call.
InterleaveReturn(t) ==
    /\ threads[t].pc = "returned"
    /\ threads' = [threads EXCEPT ![t] = Idle]
    /\ last' = Call("return")
    /\ UNCHANGED <<cached_balance, transactions, user_token, configs,
                   app, config_data, instances>>

InterleaveNext ==
    \E t \in Callers :
        \/ InterleaveDeduct(t)
        \/ InterleaveValidate(t)
        \/ InterleaveCharge(t)
        \/ InterleaveReturn(t)

InterleaveSpec == Init /\ [][InterleaveNext]_vars

(* --- one application window and the AIIntegration it owns --- *)

Windows == {"video-edit", "audio-edit", "image-edit", "xeno-code"}

\* The slots of each window that call validateCredits.
AppActions(window) ==
    CASE window = "video-edit" ->
           {"applyAutoEdit", "stabilizeVideo", "enhanceQuality"}
      [] window = "audio-edit" ->
           {"applyVoiceClone", "reduceNoise", "enhanceAudio"}
      [] window = "image-edit" -> {"applyGenerativeFill", "removeObject"}
      [] window = "xeno-code" ->
           {"getCodeSuggestion", "refactorCode", "explainCode"}
      [] OTHER -> {}

\* int required_credits of each slot: what it hands to validateCredits and,
\* where the window has a button for the slot, what the button advertises.
required_credits(action) ==
    CASE action = "applyAutoEdit" -> 8
      [] action = "stabilizeVideo" -> 5
      [] action = "enhanceQuality" -> 6
      [] action = "applyVoiceClone" -> 5
      [] action = "reduceNoise" -> 2
      [] action = "enhanceAudio" -> 3
      [] action = "applyGenerativeFill" -> 3
      [] action = "removeObject" -> 2
      [] action = "getCodeSuggestion" -> 1
      [] action = "refactorCode" -> 2
      [] action = "explainCode" -> 1

\* The increment of the slot's progress loop; 0 for a slot without a
\* QProgressDialog.
ProgressStep(action) ==
    CASE action \in {"applyAutoEdit", "applyVoiceClone"} -> 5
      [] action \in {"stabilizeVideo", "applyGenerativeFill",
                     "refactorCode"} -> 10
      [] action = "getCodeSuggestion" -> 20
      [] OTHER -> 0

\* The call the slot makes on its AIIntegration once it goes ahead: a
\* per-modality operation on the default provider, or deductCredits of
\* required_credits.
AppCharge(action, w, junk) ==
    CASE action = "applyAutoEdit" ->
           AIIntegration_processVideo(w, "XenoCloud", junk)
      [] action = "applyVoiceClone" ->
           AIIntegration_processAudio(w, "XenoCloud", junk)
      [] action = "applyGenerativeFill" ->
           AIIntegration_generateImage(w, "XenoCloud", junk)
      [] action = "getCodeSuggestion" ->
           AIIntegration_completeCode(w, "XenoCloud", junk)
      [] OTHER ->
           LET d == AIIntegration_deductCredits(w, required_credits(action))
           IN  ModalityOutcome(NoResponse, d.wallet, Deducted(d))

\* Mutant of the progress loop: a cancel leaves the loop, not the slot.
Mutant_AppLoop_BreaksOnCancel(a, canceled) ==
    IF canceled
    THEN [app |-> [a EXCEPT !.i = 101], outcome |-> "cancelled"]
    ELSE [app |-> [a EXCEPT !.i = @ + ProgressStep(a.action)],
          outcome |-> "progress"]

\* One iteration of the progress loop: setValue(i), processEvents(), then
\* return if wasCanceled(), else i += step.
AppLoop(a, canceled) ==
    IF canceled
    THEN [app |-> [NoAction EXCEPT !.window = a.window],
          outcome |-> "cancelled"]
    ELSE [app |-> [a EXCEPT !.i = @ + ProgressStep(a.action)],
          outcome |-> "progress"]

AppInit ==
    /\ cached_balance = SeedBalance
    /\ transactions = <<>>
    /\ user_token = ""
    /\ configs = NoConfigs
    /\ last = Call("constructor")
    /\ threads = [t \in Callers |-> Idle]
    /\ app \in {[NoAction EXCEPT !.window = window] : window \in Windows}
    /\ config_data = NoData
    /\ instances = NoInstances

\* The slot has run to its end: its call on the AIIntegration is made.
AppFinish(action, junk) ==
    LET o == AppCharge(action, W, junk)
    IN  /\ Len(o.wallet.transactions) <= MaxLog
        /\ cached_balance' = o.wallet.cached_balance
        /\ transactions' = o.wallet.transactions
        /\ app' = [NoAction EXCEPT !.window = app.window]
        /\ last' = [Call(action) EXCEPT
                      !.operation = "completed", !.response = o.response,
                      !.deducted = o.deducted]

\* A slot is entered.  It returns at once when its input is missing (no
\* file loaded, no prompt given) or validateCredits fails; it opens its
\* progress dialog if it has one; otherwise it runs to its end.
AppStart ==
    /\ app.pc = "idle"
    /\ \E action \in AppActions(app.window), ready \in BOOLEAN,
          junk \in IndeterminateInt :
          IF ~ready
          THEN /\ last' = [Call(action) EXCEPT !.operation = "not ready"]
               /\ UNCHANGED <<cached_balance, transactions, app>>
          ELSE IF ~AIIntegration_validateCredits(W, required_credits(action))
          THEN /\ last' = [Call(action) EXCEPT !.operation = "refused"]
               /\ UNCHANGED <<cached_balance, transactions, app>>
          ELSE IF ProgressStep(action) > 0
          THEN /\ app' = [app EXCEPT !.action = action, !.pc = "progress",
                                     !.i = 0, !.before = W]
               /\ last' = [Call(action) EXCEPT !.operation = "started"]
               /\ UNCHANGED <<cached_balance, transactions>>
          ELSE AppFinish(action, junk)
    /\ UNCHANGED <<user_token, configs, threads, config_data, instances>>

\* One iteration of the progress loop, the user cancelling or not.
AppProgress ==
    /\ app.pc = "progress"
    /\ app.i <= 100
    /\ \E canceled \in BOOLEAN :
          LET o == AppLoop(app, canceled)
          IN  /\ app' = o.app
              /\ last' = [Call(app.action) EXCEPT
                            !.operation = o.outcome, !.value = app.i]
    /\ UNCHANGED <<cached_balance, transactions, user_token, configs,
                   threads, config_data, instances>>

\* The loop has ended: the rest of the slot.
AppComplete ==
    /\ app.pc = "progress"
    /\ app.i > 100
    /\ \E junk \in IndeterminateInt : AppFinish(app.action, junk)
    /\ UNCHANGED <<user_token, configs, threads, config_data, instances>>

AppNext == AppStart \/ AppProgress \/ AppComplete

AppSpec == AppInit /\ [][AppNext]_vars

(* --- several AIIntegration instances in one session --- *)

\* The AIIntegration of the launcher and that of an editor.
InstanceIds == {"launcher", "image-edit"}

\* CreditWallet::CreditWallet(): the wallet an AIIntegration::Impl makes
\* for itself.
CreditWallet_CreditWallet == Wallet(SeedBalance, <<>>)

\* AIIntegration::AIIntegration(): a new Impl, holding its own wallet.
AIIntegration_AIIntegration(insts, n) ==
    [m \in DOMAIN insts \cup {n} |->
        IF m = n THEN CreditWallet_CreditWallet ELSE insts[m]]

\* Mutant of the wallet member: one wallet shared by every instance.
Mutant_StoreWallet_Shared(insts, n, w) == [m \in DOMAIN insts |-> w]

\* pImpl->wallet of instance n after a call that left it as w.
StoreWallet(insts, n, w) == [insts EXCEPT ![n] = w]

Construct ==
    \E n \in InstanceIds \ DOMAIN instances :
        /\ instances' = AIIntegration_AIIntegration(instances, n)
        /\ last' = [Call("constructor") EXCEPT !.arg = n]
        /\ UNCHANGED <<cached_balance, transactions, user_token, configs,
                       threads, app, config_data>>

InstanceGetCreditBalance ==
    \E n \in DOMAIN instances :
        /\ last' = [Call("getCreditBalance") EXCEPT
                      !.arg = n,
                      !.value = AIIntegration_getCreditBalance(instances[n])]
        /\ UNCHANGED <<cached_balance, transactions, user_token, configs,
                       others>>

InstanceDeductCredits ==
    \E n \in DOMAIN instances, amount \in AtomicAmounts :
        LET o == AIIntegration_deductCredits(instances[n], amount)
        IN  /\ Len(o.wallet.transactions) <= MaxLog
            /\ instances' = StoreWallet(instances, n, o.wallet)
            /\ last' = [Call("deductCredits") EXCEPT
                          !.arg = n, !.amount = amount, !.ret = o.ret]
            /\ UNCHANGED <<cached_balance, transactions, user_token,
                           configs, threads, app, config_data>>

InstanceGenerateImage ==
    \E n \in DOMAIN instances, provider \in Providers,
       junk \in IndeterminateInt :
        LET o == AIIntegration_generateImage(instances[n], provider, junk)
        IN  /\ Len(o.wallet.transactions) <= MaxLog
            /\ instances' = StoreWallet(instances, n, o.wallet)
            /\ last' = [Call("generateImage") EXCEPT
                          !.arg = n, !.provider = provider,
                          !.response = o.response, !.deducted = o.deducted]
            /\ UNCHANGED <<cached_balance, transactions, user_token,
                           configs, threads, app, config_data>>

InstancesNext ==
    \/ Construct
    \/ InstanceGetCreditBalance
    \/ InstanceDeductCredits
    \/ InstanceGenerateImage

InstancesSpec == Init /\ [][InstancesNext]_vars

-----------------------------------------------------------------------------
(* Properties                                                              *)

\* Sum of the credits fields of a log.
RECURSIVE SumCredits(_)
SumCredits(txs) ==
    IF txs = <<>> THEN 0 ELSE txs[1].credits + SumCredits(Tail(txs))

Max(a, b) == IF a > b THEN a ELSE b

\* This step left the balance and the log as they were.
WalletUnchanged ==
    /\ cached_balance' = cached_balance
    /\ transactions' = transactions

\* This step appended exactly one transaction, of this label and delta, with
\* success set, and kept the entries already there.
AppendedOne(operation, credits) ==
    /\ Len(transactions') = Len(transactions) + 1
    /\ SubSeq(transactions', 1, Len(transactions)) = transactions
    /\ transactions'[Len(transactions')].operation = operation
    /\ transactions'[Len(transactions')].credits = credits
    /\ transactions'[Len(transactions')].success = TRUE

ModalityOps ==
    {"generateImage", "processVideo", "processAudio", "completeCode",
     "chatCompletion"}

\* The fixed costs the specification states for the metered provider.
StatedCost(op) ==
    CASE op = "generateImage" -> 3
      [] op = "processVideo" -> 5
      [] op = "processAudio" -> 2
      [] op = "completeCode" -> 1
      [] op = "chatCompletion" -> 1

\* C1: in every state of a directly driven wallet, getBalance() is the seed
\* balance 100 plus the sum of the credits fields of all logged transactions
\* (a failed deduction having added nothing to either side).
C1_BalanceIsSeedPlusLoggedDeltas ==
    CreditWallet_getBalance(W) = 100 + SumCredits(transactions)

\* C1 witness: a deduction has just failed on a wallet whose log holds both a
\* spend and a top-up.
C1_Witness ==
    /\ last.op = "deductCredits" /\ ~last.ret
    /\ \E i, j \in 1 .. Len(transactions) :
          transactions[i].credits < 0 /\ transactions[j].credits > 0

\* C2: the balance of a directly driven wallet is never negative, whatever
\* int amounts deductCredits and addCredits are given.
C2_BalanceNonNegative ==
    CreditWallet_getBalance(W) >= 0

\* C3: a deductCredits call whose amount exceeds the balance returns false
\* and leaves the balance and the log as they were.
C3_InsufficientDeductChangesNothing ==
    [][ (last'.op = "deductCredits" /\ last'.amount > cached_balance)
          => (last'.ret = FALSE /\ WalletUnchanged) ]_vars

\* C3 witness: deductCredits has just been refused on a wallet that already
\* holds two transactions.
C3_Witness ==
    /\ last.op = "deductCredits" /\ last.amount > cached_balance
    /\ ~last.ret
    /\ Len(transactions) = 2

\* C4: a deductCredits call whose amount is at most the balance returns
\* true, lowers the balance by the amount and appends one transaction with
\* the label given, credits = -amount and success = true.
C4_SufficientDeductApplies ==
    [][ (last'.op = "deductCredits" /\ cached_balance >= last'.amount)
          => /\ last'.ret = TRUE
             /\ cached_balance' = cached_balance - last'.amount
             /\ AppendedOne(last'.operation, -last'.amount) ]_vars

\* C4 witness: a deduction of the whole balance has just succeeded.
C4_Witness ==
    /\ last.op = "deductCredits" /\ last.ret
    /\ last.amount = 100 /\ cached_balance = 0

\* C5: addCredits returns true, raises the balance by the amount whatever
\* the balance was, and appends one transaction with credits = +amount and
\* success = true.
C5_AddCreditsApplies ==
    [][ last'.op = "addCredits"
          => /\ last'.ret = TRUE
             /\ cached_balance' = cached_balance + last'.amount
             /\ AppendedOne("credit_purchase", last'.amount) ]_vars

\* C5 witness: addCredits has just returned on a wallet it found empty.
C5_Witness ==
    /\ last.op = "addCredits" /\ last.ret
    /\ last.amount = 5 /\ cached_balance = 5

\* C6: validateCredits(n) returns true exactly when n <= getCreditBalance(),
\* and changes neither the balance nor the log.
C6_ValidateIsPureComparison ==
    [][ last'.op = "validateCredits"
          => /\ last'.ret <=> (last'.amount <= AIIntegration_getCreditBalance(W))
             /\ WalletUnchanged ]_vars

\* C6 witness: validateCredits has just accepted a requirement equal to the
\* balance, after the balance had moved.
C6_Witness ==
    /\ last.op = "validateCredits" /\ last.ret
    /\ last.amount = cached_balance
    /\ transactions # <<>>

\* C7: a per-modality operation on XenoCloud called with the balance below
\* its stated cost returns success = false and the message "Insufficient
\* credits", and leaves the balance and the log as they were.
C7_InsufficientCreditsRefused ==
    [][ (/\ last'.op \in ModalityOps
         /\ last'.provider = "XenoCloud"
         /\ cached_balance < StatedCost(last'.op))
          => /\ last'.response.success = FALSE
             /\ last'.response.error_message = "Insufficient credits"
             /\ WalletUnchanged ]_vars

\* C7 witness: processVideo has just been refused at a balance of 4, which
\* would have paid for any other modality.
C7_Witness ==
    /\ last.op = "processVideo" /\ last.provider = "XenoCloud"
    /\ ~last.response.success
    /\ cached_balance = 4

\* C8: a per-modality operation on XenoCloud called with the balance at
\* least its stated cost returns success = true with credits_used = cost,
\* lowers the balance by the cost, appends one "api_call" transaction of
\* -cost, and its inner deduction is not refused.
C8_SufficientCreditsCharged ==
    [][ (/\ last'.op \in ModalityOps
         /\ last'.provider = "XenoCloud"
         /\ cached_balance >= StatedCost(last'.op))
          => /\ last'.response.success = TRUE
             /\ last'.response.credits_used = StatedCost(last'.op)
             /\ cached_balance' = cached_balance - StatedCost(last'.op)
             /\ AppendedOne("api_call", -StatedCost(last'.op))
             /\ last'.deducted = "ok" ]_vars

\* C8 witness: generateImage has just succeeded on XenoCloud and taken the
\* balance from 4 to 1.
C8_Witness ==
    /\ last.op = "generateImage" /\ last.provider = "XenoCloud"
    /\ last.response.success /\ last.response.credits_used = 3
    /\ last.deducted = "ok"
    /\ cached_balance = 1

\* C9: a per-modality operation on OpenRouter or Ollama returns success =
\* true with credits_used = 0 at any balance, and leaves the balance and the
\* log as they were.
C9_UnmeteredProvidersFree ==
    [][ (last'.op \in ModalityOps /\ last'.provider # "XenoCloud")
          => /\ last'.response.success = TRUE
             /\ last'.response.credits_used = 0
             /\ WalletUnchanged ]_vars

\* C9 witness: an Ollama call has just succeeded on an empty wallet.
C9_Witness ==
    /\ last.op \in ModalityOps /\ last.provider = "Ollama"
    /\ last.response.success
    /\ cached_balance = 0

\* The entries of h are the last n entries of the log, in log order.
IsLastWindow(h, n) ==
    /\ Len(h) = n
    /\ \A j \in 1 .. n : h[j] = transactions[Len(transactions) - n + j]

C11_ReturnedTransactionsWellFormed ==
    last.op = "getTransactionHistory"
      => \A j \in 1 .. Len(last.history) :
            /\ last.history[j].id # ""
            /\ last.history[j].operation # ""
            /\ last.history[j].credits # 0
            /\ last.history[j].success = TRUE

\* C12: the transaction a successful deductCredits has just appended has
\* credits < 0, and the one addCredits has just appended has credits > 0.
C12_DeltaSignMatchesKind ==
    /\ (last.op = "deductCredits" /\ last.ret)
          => transactions[Len(transactions)].credits < 0
    /\ last.op = "addCredits"
          => transactions[Len(transactions)].credits > 0

\* s is an initial segment of t.
IsPrefix(s, t) ==
    Len(s) <= Len(t) /\ SubSeq(t, 1, Len(s)) = s

C14_IdsSequential ==
    /\ \A i \in 1 .. Len(transactions) :
          transactions[i].id = "tx_" \o ToString(i)
    /\ \A i, j \in 1 .. Len(transactions) :
          i # j => transactions[i].id # transactions[j].id

\* C14 witness: the log holds three entries, the first from addCredits and
\* the last from deductCredits.
C14_Witness ==
    /\ Len(transactions) = 3
    /\ transactions[1].operation = "credit_purchase"
    /\ transactions[3].operation = "test_operation"
    /\ transactions[3].id = "tx_3"

\* C15: authenticate(token) stores the token and returns true whenever it
\* is called, the empty token included.
C15_AuthenticateAlwaysTrue ==
    last.op = "authenticate"
      => (last.ret = TRUE /\ user_token = last.operation)

\* C16: no provider has an entry on a fresh AIIntegration;
\* isProviderAvailable(p) returns true exactly when configs holds an entry
\* for p; configure(p, c) returns true and leaves c as the entry of p,
\* whatever was there, so that p is available at once; getProviderStatus(p)
\* is "Available" when p has an entry and "Not configured" when not.
C16_AvailableIffConfigured ==
    /\ (last.op = "constructor" => DOMAIN configs = {})
    /\ [][ /\ last'.op = "isProviderAvailable"
              => /\ last'.ret <=> (last'.provider \in DOMAIN configs)
                 /\ configs' = configs
           /\ last'.op = "getProviderStatus"
              => /\ last'.operation =
                      IF last'.provider \in DOMAIN configs
                      THEN "Available" ELSE "Not configured"
                 /\ configs' = configs
           /\ last'.op = "configure"
              => /\ last'.ret = TRUE
                 /\ last'.provider \in DOMAIN configs'
                 /\ configs'[last'.provider] = last'.arg
                 /\ AIIntegration_isProviderAvailable(configs', last'.provider)
         ]_vars

\* C16 witness: isProviderAvailable has just returned true for a provider
\* whose entry is the empty config configure was given, another provider
\* having none.
C16_Witness ==
    /\ last.op = "isProviderAvailable" /\ last.ret
    /\ last.provider = "Ollama"
    /\ configs["Ollama"].endpoint = ""
    /\ "XenoCloud" \notin DOMAIN configs

\* The section of the config file that configures a provider, and the
\* fields the section must hold.
SectionOf(provider) ==
    CASE provider = "XenoCloud" -> "xeno_ai"
      [] provider = "OpenRouter" -> "open_router"
      [] provider = "Ollama" -> "ollama"

RequiredFields(provider) ==
    IF provider = "Ollama" THEN {"endpoint"} ELSE {"endpoint", "api_key"}

SectionPresent(file, provider) == SectionOf(provider) \in DOMAIN file.json

\* The file opens, parses, and every section in it holds its fields.
WellFormed(file) ==
    /\ file.opens /\ file.parses
    /\ \A p \in Providers :
          SectionPresent(file, p)
            => RequiredFields(p) \subseteq DOMAIN file.json[SectionOf(p)]

\* Entry p of the map is the same before and after this step.
EntryUnchanged(p) ==
    /\ (p \in DOMAIN configs') <=> (p \in DOMAIN configs)
    /\ p \in DOMAIN configs => configs'[p] = configs[p]

\* Entry p of the map after this step is what section sec describes.
EntryFromSection(p, sec) ==
    /\ p \in DOMAIN configs'
    /\ configs'[p].endpoint = sec["endpoint"].value
    /\ IF p = "Ollama"
       THEN configs'[p].api_key = "" /\ DOMAIN configs'[p].headers = {}
       ELSE /\ configs'[p].api_key = sec["api_key"].value
            /\ DOMAIN configs'[p].headers = {"Authorization"}
            /\ configs'[p].headers["Authorization"] =
                   "Bearer " \o sec["api_key"].value

\* C17: loadConfigFromFile returns false for a file that does not open or
\* does not parse; for a well-formed file it returns true, every provider
\* whose section is present gets the entry the section describes, and every
\* provider whose section is absent keeps what it had.
C17_LoadConfiguresPresentSections ==
    [][ last'.op = "loadConfigFromFile"
          => /\ (~last'.arg.opens \/ ~last'.arg.parses) => last'.ret = FALSE
             /\ WellFormed(last'.arg)
                  => /\ last'.ret = TRUE
                     /\ \A p \in Providers :
                           IF SectionPresent(last'.arg, p)
                           THEN EntryFromSection(
                                  p, last'.arg.json[SectionOf(p)])
                           ELSE EntryUnchanged(p)
      ]_vars

\* C17 witness: a file holding only the ollama section has just been loaded
\* over a map in which configure had set XenoCloud.
C17_Witness ==
    /\ last.op = "loadConfigFromFile" /\ last.ret
    /\ DOMAIN last.arg.json = {"ollama"}
    /\ DOMAIN configs = {"XenoCloud", "Ollama"}
    /\ configs["XenoCloud"].api_key = "key_a"
    /\ configs["Ollama"].endpoint = "ollama.endpoint"

\* C18: whenever loadConfigFromFile returns false, the provider map is what
\* it was before the call.
C18_FailedLoadChangesNothing ==
    [][ (last'.op = "loadConfigFromFile" /\ last'.ret = FALSE)
          => configs' = configs ]_vars

\* C19: makeAPICall returns success = true, with credits_used = 1 for
\* XenoCloud and 0 for the other providers whatever the endpoint and the
\* payload, and changes neither the balance, the log nor the provider map.
C19_MakeAPICallReportsWithoutCharging ==
    [][ last'.op = "makeAPICall"
          => /\ last'.response.success = TRUE
             /\ last'.response.credits_used =
                  IF last'.provider = "XenoCloud" THEN 1 ELSE 0
             /\ WalletUnchanged
             /\ configs' = configs ]_vars

\* C19 witness: makeAPICall on XenoCloud has just reported a cost of 1 on a
\* wallet two chat completions had taken to 98.
C19_Witness ==
    /\ last.op = "makeAPICall" /\ last.provider = "XenoCloud"
    /\ last.response.success /\ last.response.credits_used = 1
    /\ cached_balance = 98 /\ Len(transactions) = 2
    /\ DOMAIN configs # {}

\* C20: getCreditBalance() returns the wallet's balance, and
\* AIIntegration::deductCredits(amount) returns true, lowers the balance by
\* amount and logs one "api_call" transaction of -amount when
\* balance >= amount, and returns false with no change otherwise.
C20_CreditOpsDelegateToWallet ==
    [][ /\ last'.op = "getCreditBalance"
           => (last'.value = cached_balance /\ WalletUnchanged)
        /\ last'.op = "deductCredits"
           => IF cached_balance >= last'.amount
              THEN /\ last'.ret = TRUE
                   /\ cached_balance' = cached_balance - last'.amount
                   /\ AppendedOne("api_call", -last'.amount)
              ELSE last'.ret = FALSE /\ WalletUnchanged
      ]_vars

\* C20 witness: AIIntegration::deductCredits has just been refused on a
\* wallet an earlier deduction had taken to 4.
C20_Witness ==
    /\ last.op = "deductCredits" /\ ~last.ret
    /\ last.amount = 5 /\ cached_balance = 4
    /\ transactions[1].operation = "api_call"

(* --- C21 --- *)

\* C21: when every wallet operation runs its check and its balance and log
\* update as one atomic step, then under every interleaving of concurrent
\* callers the balance equals the seed plus the sum of the logged deltas in
\* every reachable state, and no deduction succeeds for an amount greater
\* than the balance at the moment it is applied.
C21_AtomicCallersKeepLedger ==
    /\ [](cached_balance = SeedBalance + SumCredits(transactions))
    /\ [][\A t \in Callers :
            /\ threads[t].pc = "waiting"
            /\ threads'[t].pc = "returned"
            /\ threads[t].op = "deductCredits"
            /\ threads'[t].ret
            => /\ threads[t].amount <= cached_balance
               /\ cached_balance' = cached_balance - threads[t].amount]_vars

\* Both callers were inside deductCredits(96) at once; the one that ran
\* first succeeded and the other was refused.
C21_Witness ==
    /\ \A t \in Callers :
          /\ threads[t].pc = "returned"
          /\ threads[t].op = "deductCredits"
          /\ threads[t].amount = 96
    /\ threads["t2"].ret
    /\ ~threads["t1"].ret
    /\ cached_balance = 4
    /\ Len(transactions) = 1

(* --- C22 --- *)

\* This caller's decrement has been executed.
Decremented(t) ==
    \/ threads[t].pc = "append"
    \/ threads[t].pc = "returned" /\ threads[t].ret

\* C22: with the check, the decrement and the log append of deductCredits
\* as separate steps and no lock, two callers both pass the check and both
\* decrement; whenever their combined amount exceeds the balance the wallet
\* started with, the balance is left negative.
C22_BothDeductionsOverdraw ==
    (/\ \A t \in Callers : Decremented(t)
     /\ threads["t1"].amount + threads["t2"].amount > SeedBalance)
    => cached_balance < 0

\* Both deductCredits(96) and deductCredits(5) returned true on a wallet of
\* 100 credits, and the balance is -1.
C22_Witness ==
    /\ \A t \in Callers : threads[t].pc = "returned" /\ threads[t].ret
    /\ threads["t1"].amount = 96
    /\ threads["t2"].amount = 5
    /\ cached_balance = -1
    /\ Len(transactions) = 2
    /\ cached_balance = SeedBalance + SumCredits(transactions)

(* --- C23 --- *)

\* What the three getters return for key, whatever default is handed in.
Reads(data, key) ==
    <<[s \in StringValues |-> ConfigManager_getString(data, key, s)],
      [n \in IntValues |-> ConfigManager_getInt(data, key, n)],
      [b \in BOOLEAN |-> ConfigManager_getBool(data, key, b)]>>

\* C23: right after setString(k, v) getString(k) returns v, after
\* setInt(k, n) getInt(k) returns n, after setBool(k, b) getBool(k) returns
\* b, whatever the default; and a set on one key, like every get, leaves
\* what the getters return for every other key as it was.
C23_SetGetRoundTrips ==
    [][LET k == last'.operation
       IN  /\ last'.op = "setString" =>
                \A d \in StringValues :
                    ConfigManager_getString(config_data', k, d) = last'.arg
           /\ last'.op = "setInt" =>
                \A d \in IntValues :
                    ConfigManager_getInt(config_data', k, d) = last'.amount
           /\ last'.op = "setBool" =>
                \A d \in BOOLEAN :
                    ConfigManager_getBool(config_data', k, d) = last'.ret
           /\ last'.op \in {"setString", "setInt", "setBool"} =>
                \A other \in Keys \ {k} :
                    Reads(config_data', other) = Reads(config_data, other)
           /\ last'.op \in {"getString", "getInt", "getBool"} =>
                config_data' = config_data]_vars

\* test_int was set to INT_MIN, test_key was set to "1" afterwards, and
\* getInt("test_int", 0) returned INT_MIN.
C23_Witness ==
    /\ last.op = "getInt"
    /\ last.operation = "test_int"
    /\ last.amount = 0
    /\ last.value = INT_MIN
    /\ "test_key" \in DOMAIN config_data
    /\ config_data["test_key"] = <<"1">>

(* --- C24 --- *)

\* C24: a caller of a metered per-modality operation that is handed a
\* success response with credits_used = c had its deduction of c applied:
\* the deduction was not refused and appended exactly one transaction of
\* -c, also when another call on the same AIIntegration came between its
\* validateCredits and its deductCredits.
C24_SuccessMeansCharged ==
    [][\A t \in Callers :
         /\ threads[t].pc = "deduct"
         /\ threads'[t].pc = "returned"
         /\ threads[t].provider = "XenoCloud"
         /\ threads'[t].response.success
         => /\ threads'[t].deducted = "ok"
            /\ AppendedOne("api_call", -threads'[t].response.credits_used)]_vars

\* The whole-call operator is the two parts run back to back.
GenerateImageIsItsParts ==
    \A provider \in Providers, junk \in IndeterminateInt :
        LET v == AIIntegration_generateImage_validate(W, provider, junk)
        IN  AIIntegration_generateImage(W, provider, junk) =
              IF v.returned
              THEN ModalityOutcome(v.response, W, "none")
              ELSE AIIntegration_generateImage_charge(W, provider, v.response)

(* --- C25 --- *)

\* C25: when an application-level AI action completes, the credits removed
\* from the wallet equal the required_credits the action validated
\* beforehand and advertises on its button.
C25_ChargedWhatWasAdvertised ==
    [][last'.operation = "completed" =>
         cached_balance - cached_balance' = required_credits(last'.op)]_vars

(* --- C26 --- *)

\* C26: in an action with a progress dialog, a cancel at any progress step
\* returns from the action with the balance and the log as they were when
\* the action started, and the wallet changes only once the loop has run
\* past 100 without a cancel.
C26_CancelLeavesWalletAlone ==
    /\ [](app.pc = "progress" => W = app.before)
    /\ [][last'.operation = "cancelled" =>
            /\ app.pc = "progress"
            /\ app'.pc = "idle"
            /\ Wallet(cached_balance', transactions') = app.before]_vars
    /\ [][(app.pc = "progress" /\ ~WalletUnchanged) =>
            /\ app.i > 100
            /\ last'.operation = "completed"
            /\ app'.pc = "idle"]_vars

\* stabilizeVideo was cancelled at its last progress step, i = 100, after
\* an earlier stabilizeVideo had run to its end: the balance is still 95.
C26_Witness ==
    /\ last.op = "stabilizeVideo"
    /\ last.operation = "cancelled"
    /\ last.value = 100
    /\ app.pc = "idle"
    /\ cached_balance = 95
    /\ Len(transactions) = 1

(* --- C27 --- *)

\* C27: no operation of AIIntegration removes a configuration entry, so a
\* provider that isProviderAvailable reports available is reported
\* available in every later state; and configure(p, c) changes the
\* availability of no provider other than p and leaves the wallet alone.
C27_AvailabilityMonotone ==
    [][ /\ \A p \in Providers :
             AIIntegration_isProviderAvailable(configs, p)
             => AIIntegration_isProviderAvailable(configs', p)
        /\ last'.op = "configure"
           => /\ \A q \in Providers \ {last'.provider} :
                    AIIntegration_isProviderAvailable(configs', q)
                    <=> AIIntegration_isProviderAvailable(configs, q)
              /\ WalletUnchanged
      ]_vars

\* XenoCloud is reported available with OpenRouter configured as well,
\* Ollama not, and one credit spent.
C27_Witness ==
    /\ last.op = "isProviderAvailable" /\ last.ret
    /\ last.provider = "XenoCloud"
    /\ "OpenRouter" \in DOMAIN configs
    /\ "Ollama" \notin DOMAIN configs
    /\ cached_balance = 99

(* --- C28 --- *)

\* C28: an insufficient-credit failure response of a per-modality operation
\* carries credits_used = 0 and empty content.
C28_FailureResponseDeterminate ==
    (last.op \in ModalityOps /\ ~last.response.success)
    => /\ last.response.credits_used = 0
       /\ last.response.content = ""

(* --- C29 --- *)

\* C29: every AIIntegration is constructed with a wallet of its own, seeded
\* with 100 credits and an empty log, and a call on one instance leaves the
\* balance and the log of every other instance as they were.
C29_WalletPerInstance ==
    [][ /\ last'.op = "constructor"
           => /\ last'.arg \notin DOMAIN instances
              /\ AIIntegration_getCreditBalance(instances'[last'.arg]) = 100
              /\ instances'[last'.arg].transactions = <<>>
        /\ \A n \in DOMAIN instances :
             n # last'.arg => instances'[n] = instances[n]
      ]_vars

\* The launcher reads a balance of 100 after the editor's instance has
\* spent 3 credits on a generateImage.
C29_Witness ==
    /\ last.op = "getCreditBalance"
    /\ last.arg = "launcher"
    /\ last.value = 100
    /\ "image-edit" \in DOMAIN instances
    /\ instances["image-edit"].cached_balance = 97
    /\ Len(instances["image-edit"].transactions) = 1

====
